---- MODULE Spec2Model ----
(***************************************************************************)
(* ChannelTalk monitor: a webhook receiver that keeps the set of           *)
(* conversations awaiting a reply and pushes updates to dashboard viewers. *)
(* The repository holds two variants of the program, src/main.py (Redis    *)
(* store with an in-memory cache, message-hash de-duplication, answer      *)
(* statistics, hourly sweep) and src/server.py (Redis store with a memory  *)
(* fallback).  The variable `program` says which of the two is running.    *)
(*                                                                         *)
(* Spec          the store machine of both programs: every handler runs    *)
(*               from start to end in one step.                            *)
(* FairSpec      main.py alone, with the clock and the sweep kept running. *)
(* BroadcastSpec one step per send of broadcast(), with viewers            *)
(*               connecting and disconnecting in between.                  *)
(* ServerSpec    server.py alone, with its snapshot endpoint.              *)
(* TaskSpec      main.py with one step per await: the tasks of the         *)
(*               webhooks and of the periodic loops interleave.            *)
(* RankSpec      main.py, the webhooks that bear on the answer ranking.    *)
(* ViewSpec      main.py, customer messages and GET /api/chats as time     *)
(*               passes.                                                   *)
(* EventSpec     both programs, the webhook events one by one.             *)
(* ConnectSpec   both programs, handle_websocket with one step per await   *)
(*               next to the webhooks, and the list each viewer shows.     *)
(* LoadSpec      main.py, _initial_load on what a start can find in Redis. *)
(* FallbackSpec  server.py with Redis commands that fail now and then.     *)
(*                                                                         *)
(* Time is counted in seconds, and the clock advances in steps of          *)
(* TickSeconds, which does not divide the 12 hours of the sweep: a         *)
(* conversation whose key outlives its 12th hour meets a sweep in between. *)
(***************************************************************************)
EXTENDS Integers, Sequences, FiniteSets, TLC

\* ----------------------------------------------------------------- bounds
NumChats == 2
NumTexts == 1
MaxCreatedTick == 0
MaxTicks == 3
MaxCount == 2
NumViewers == 3
NumBroadcasts == 2
MaxTasks == 3
MaxInFlight == 2
NumTaskChats == 1
NumViewChats == 3
MaxViewSaves == 3

\* ------------------------------------------------------ program constants
CACHE_TTL == 43200
MAX_AGE_HOURS == 12
SERVER_TTL == 3600

TickSeconds == 5 * 3600
SecondsPerDay == 24 * 3600

WEBHOOK_TOKEN_MAIN == "80ab2d11835f44b89010c8efa5eec4b4"
WEBHOOK_TOKEN_SERVER == "AJUNG"

ChatIds == 1 .. NumChats
Texts == 1 .. NumTexts
NoName == ""
Viewers == 1 .. NumViewers
Calls == 1 .. NumBroadcasts
UNASSIGNED == "unassigned"
TaskIds == 1 .. MaxTasks
TaskChats == 1 .. NumTaskChats

\* --------------------------------------------------------------- dicts
EmptyDict == [x \in {} |-> 0]

Put(d, k, v) == [x \in (DOMAIN d) \cup {k} |-> IF x = k THEN v ELSE d[x]]

Del(d, k) == [x \in (DOMAIN d) \ {k} |-> d[x]]

\* Redis HINCRBY key field 1
HIncr(d, k) == Put(d, k, (IF k \in DOMAIN d THEN d[k] ELSE 0) + 1)

\* Redis drops a key once its time-to-live has run out.
expire_keys(d, t) == [k \in {x \in DOMAIN d : d[x].exp > t} |-> d[k]]

VARIABLES
    program,           \* "main" or "server": the variant that is running
    now,               \* the clock, in seconds
    unanswered_chats,  \* Redis set 'unanswered_chats'
    redis_chat,        \* Redis keys chat:{id}: id -> [value, exp]
    redis_messages,    \* Redis sets chat:{id}:messages: id -> [value, exp]
    stats_total,       \* Redis hash stats:total
    stats_today,       \* Redis hash stats:today
    ranking_total,     \* Redis hash ranking:total
    ranking_daily,     \* Redis hash ranking:daily
    chat_cache,        \* main.py self.chat_cache
    chat_messages,     \* main.py self.chat_messages
    memory_cache,      \* server.py self.memory_cache
    redis_up,          \* server.py: self.redis is not None
    outbox,            \* the broadcast(data) calls of the last step, in order
    last,              \* the last operation and its inputs
    seen,              \* history: the deliveries processed so far
    last_msg,          \* history: id -> the latest message event processed
    websockets,        \* self.websockets
    opened,            \* the viewers that have connected so far
    broken,            \* the viewers whose connection is dead: a send raises
    calls,             \* the calls of broadcast(): call -> its position
    sends,             \* history: call -> viewer -> sends that went through, raised
    tasks,             \* the coroutines in flight: task -> its position
    hist               \* history: what was done to each conversation, shown to each viewer

vars == <<program, now, unanswered_chats, redis_chat, redis_messages,
          stats_total, stats_today, ranking_total, ranking_daily,
          chat_cache, chat_messages, memory_cache, redis_up,
          outbox, last, seen, last_msg,
          websockets, opened, broken, calls, sends, tasks, hist>>

storeVars == <<now, unanswered_chats, redis_chat, redis_messages,
               stats_total, stats_today, ranking_total, ranking_daily,
               chat_cache, chat_messages, memory_cache, redis_up,
               outbox, last, seen, last_msg>>

broadcastVars == <<websockets, opened, broken, calls, sends>>

taskVars == <<tasks, hist>>

\* The handlers below are functions of a state record st (one field per
\* variable they touch), so that one handler can call another.  st.exc says
\* that an exception is propagating out of the code modelled.
State ==
    [now |-> now, unanswered_chats |-> unanswered_chats, redis_chat |-> redis_chat,
     redis_messages |-> redis_messages, stats_total |-> stats_total,
     stats_today |-> stats_today, ranking_total |-> ranking_total,
     ranking_daily |-> ranking_daily, chat_cache |-> chat_cache,
     chat_messages |-> chat_messages, memory_cache |-> memory_cache,
     redis_up |-> redis_up, outbox |-> <<>>, exc |-> FALSE]

Apply(st) ==
    /\ unanswered_chats' = st.unanswered_chats
    /\ redis_chat' = st.redis_chat
    /\ redis_messages' = st.redis_messages
    /\ stats_total' = st.stats_total
    /\ stats_today' = st.stats_today
    /\ ranking_total' = st.ranking_total
    /\ ranking_daily' = st.ranking_daily
    /\ chat_cache' = st.chat_cache
    /\ chat_messages' = st.chat_messages
    /\ memory_cache' = st.memory_cache
    /\ outbox' = st.outbox

\* Counters are capped: a step that would push one past MaxCount is not taken.
WithinBounds(st) ==
    /\ \A k \in DOMAIN st.stats_total : st.stats_total[k] <= MaxCount
    /\ \A k \in DOMAIN st.ranking_total : st.ranking_total[k] <= MaxCount

\* ------------------------------------------------------ time and formats
\* datetime.isoformat() and datetime.fromisoformat(): an ISO string is kept
\* apart from the instant it denotes.
isoformat(t) == <<"iso", t>>

fromisoformat(s) == s[2]

\* datetime.now().date()
Date(t) == t \div SecondsPerDay

\* str.lower(), on the names of this model
Lower(name) == IF name \in {"Bot", "BOT", "bot"} THEN "bot" ELSE name

\* MEMBER_TO_TEAM: "Kim" stands for a member of a team.
MEMBER_TO_TEAM == [n \in {"Kim"} |-> "SNS 1"]

\* ------------------------------------------------------------- main.py
\* One call of broadcast(data).  What one call does viewer by viewer is the
\* subject of BroadcastSpec.
broadcast(st, data) == [st EXCEPT !.outbox = Append(@, data)]

message_hash(chat_data) == <<chat_data.lastMessage, chat_data.timestamp>>

with_defaults(chat_data) ==
    [chat_data EXCEPT
        !.assignee = IF @ = NoName THEN UNASSIGNED ELSE @,
        !.team = IF @ = NoName THEN UNASSIGNED ELSE @]

\* The Redis pipeline of save_chat: one MULTI/EXEC transaction.
save_chat_pipeline(st, chat_data, message_hash_) ==
    LET chat_id == chat_data.id
        hashes == IF chat_id \in DOMAIN st.redis_messages
                  THEN st.redis_messages[chat_id].value ELSE {}
    IN [st EXCEPT
           !.redis_messages = Put(@, chat_id, [value |-> hashes \cup {message_hash_},
                                               exp |-> st.now + CACHE_TTL]),
           !.redis_chat = Put(@, chat_id, [value |-> chat_data,
                                           exp |-> st.now + CACHE_TTL]),
           !.unanswered_chats = @ \cup {chat_id},
           !.stats_total = HIncr(@, "received"),
           !.stats_today = HIncr(@, <<"received", Date(st.now)>>)]

\* What save_chat does once its pipeline has been executed.
save_chat_resume(st, chat_data) ==
    LET s1 == [st EXCEPT !.chat_cache = Put(@, chat_data.id, chat_data)]
    IN broadcast(s1, [type |-> "new_chat", chat |-> chat_data,
                      total |-> Cardinality(DOMAIN s1.chat_cache)])

\* redis_ok = FALSE: the Redis commands of this call raise.
save_chat(st, chat_data, redis_ok) ==
    LET chat_id == chat_data.id
        h == message_hash(chat_data)
        known == chat_id \in DOMAIN st.chat_messages
        existing_hashes == IF chat_id \in DOMAIN st.redis_messages
                           THEN st.redis_messages[chat_id].value ELSE {}
    IN IF ~known /\ ~redis_ok
       THEN \* smembers raises after the empty set was put in place
            [st EXCEPT !.chat_messages = Put(@, chat_id, {})]
       ELSE LET s1 == IF known THEN st
                      ELSE [st EXCEPT !.chat_messages = Put(@, chat_id, existing_hashes)]
            IN IF h \in s1.chat_messages[chat_id]
               THEN s1
               ELSE LET s2 == [s1 EXCEPT !.chat_messages[chat_id] = @ \cup {h}]
                    IN IF ~redis_ok
                       THEN s2
                       ELSE LET data == with_defaults(chat_data)
                            IN save_chat_resume(save_chat_pipeline(s2, data, h), data)

\* remove_chat_stats without the test of `cleanup`.
remove_chat_stats_loud(st, manager_name, assignee, cleanup) ==
    LET s1 == [st EXCEPT !.stats_total = HIncr(@, "answered"),
                         !.stats_today = HIncr(@, <<"answered", Date(st.now)>>)]
    IN [s1 EXCEPT !.ranking_daily = HIncr(@, <<Date(st.now), "Sweep">>),
                  !.ranking_total = HIncr(@, "Sweep")]

\* remove_chat_stats without the comparison of manager_name and assignee.
remove_chat_stats_any(st, manager_name, assignee, cleanup) ==
    IF cleanup
    THEN st
    ELSE LET s1 == [st EXCEPT !.stats_total = HIncr(@, "answered"),
                              !.stats_today = HIncr(@, <<"answered", Date(st.now)>>)]
         IN IF manager_name # NoName /\ Lower(manager_name) # "bot"
            THEN [s1 EXCEPT !.ranking_daily = HIncr(@, <<Date(st.now), manager_name>>),
                            !.ranking_total = HIncr(@, manager_name)]
            ELSE s1

\* The statistics part of the pipeline of remove_chat.
remove_chat_stats(st, manager_name, assignee, cleanup) ==
    IF cleanup
    THEN st
    ELSE LET s1 == [st EXCEPT !.stats_total = HIncr(@, "answered"),
                              !.stats_today = HIncr(@, <<"answered", Date(st.now)>>)]
         IN IF /\ manager_name # NoName
               /\ Lower(manager_name) # "bot"
               /\ (assignee = NoName \/ manager_name # assignee)
            THEN [s1 EXCEPT !.ranking_daily = HIncr(@, <<Date(st.now), manager_name>>),
                            !.ranking_total = HIncr(@, manager_name)]
            ELSE s1

\* The manager field of the 'chat_answered' broadcast.
answered_by(manager_name, cleanup) == IF cleanup THEN NoName ELSE manager_name

\* The Redis pipeline of remove_chat: one MULTI/EXEC transaction.
remove_chat_pipeline(st, chat_id, manager_name, assignee, cleanup) ==
    [remove_chat_stats(st, manager_name, assignee, cleanup) EXCEPT
        !.redis_chat = Del(@, chat_id),
        !.redis_messages = Del(@, chat_id),
        !.unanswered_chats = @ \ {chat_id}]

\* remove_chat_resume without the test of results[2].
remove_chat_resume_always(st, chat_id, manager_name, cleanup, srem) ==
    LET s2 == [st EXCEPT !.chat_cache = Del(@, chat_id),
                         !.chat_messages = Del(@, chat_id)]
    IN broadcast(s2, [type |-> "chat_answered", chatId |-> chat_id,
                      total |-> Cardinality(DOMAIN s2.chat_cache),
                      manager |-> answered_by(manager_name, cleanup)])

\* What remove_chat does once its pipeline has been executed; srem is
\* results[2], the reply of SREM.
remove_chat_resume(st, chat_id, manager_name, cleanup, srem) ==
    IF ~srem
    THEN st
    ELSE LET s2 == [st EXCEPT !.chat_cache = Del(@, chat_id),
                              !.chat_messages = Del(@, chat_id)]
         IN broadcast(s2, [type |-> "chat_answered", chatId |-> chat_id,
                           total |-> Cardinality(DOMAIN s2.chat_cache),
                           manager |-> answered_by(manager_name, cleanup)])

\* The try block of remove_chat.
remove_chat_try(st, chat_id, manager_name, assignee, cleanup, redis_ok) ==
    IF ~redis_ok
    THEN [st EXCEPT !.exc = TRUE]
    ELSE remove_chat_resume(remove_chat_pipeline(st, chat_id, manager_name, assignee, cleanup),
                            chat_id, manager_name, cleanup,
                            chat_id \in st.unanswered_chats)

\* except Exception: logger.error(...)
except_log(st) == [st EXCEPT !.exc = FALSE]

remove_chat(st, chat_id, manager_name, assignee, cleanup, redis_ok) ==
    except_log(remove_chat_try(st, chat_id, manager_name, assignee, cleanup, redis_ok))

\* ----------------------------------------------------- webhook payloads
\* A payload after field extraction: chatId 0 stands for a missing id, NoName
\* for a missing name.  assignee is the name the extraction steps arrive at.
Event(type, chatId, personType, plainText, createdAt, manager, assignee, state) ==
    [type |-> type, chatId |-> chatId, personType |-> personType,
     plainText |-> plainText, createdAt |-> createdAt, manager |-> manager,
     assignee |-> assignee, state |-> state]

CreatedTimes(t) == {k * TickSeconds : k \in 0 .. MaxCreatedTick} \cap (0 .. t)

CustomerMessages(t) ==
    {Event("message", c, "user", x, k, NoName, a, "") :
        c \in ChatIds, x \in Texts, k \in CreatedTimes(t), a \in {NoName}}

StaffMessages ==
    {Event("message", c, p, 0, 0, m, NoName, "") :
        c \in ChatIds, p \in {"manager", "bot"}, m \in {NoName, "Kim"}}

UserChatEvents ==
    {Event("userChat", c, "", 0, 0, NoName, a, "opened") : c \in ChatIds, a \in {"Kim"}}
    \cup {Event("userChat", c, "", 0, 0, NoName, NoName, s) :
             c \in ChatIds, s \in {"closed", "resolved", "snoozed"}}

UnhandledEvents ==
    {Event("message", 0, "user", 1, 0, NoName, NoName, ""),
     Event("message", 1, "system", 1, 0, NoName, NoName, ""),
     Event("push", 1, "", 0, 0, NoName, NoName, "")}

Events(t) == CustomerMessages(t) \cup StaffMessages \cup UserChatEvents \cup UnhandledEvents

team_of(name) == IF name \in DOMAIN MEMBER_TO_TEAM THEN MEMBER_TO_TEAM[name] ELSE NoName

\* process_message that takes every author that is not staff for a customer.
process_message_lenient(st, data, redis_ok) ==
    IF data.chatId = 0
    THEN st
    ELSE save_chat(st, [id |-> data.chatId, lastMessage |-> data.plainText,
                        timestamp |-> isoformat(data.createdAt),
                        assignee |-> data.assignee, team |-> team_of(data.assignee)],
                   redis_ok)

\* The name process_message takes for the author of a reply.
manager_name_of(data) ==
    IF data.manager # NoName THEN data.manager
    ELSE IF data.personType = "bot" THEN "Bot" ELSE "Unknown"

process_message(st, data, redis_ok) ==
    IF data.chatId = 0
    THEN st
    ELSE IF data.personType = "user"
    THEN save_chat(st, [id |-> data.chatId, lastMessage |-> data.plainText,
                        timestamp |-> isoformat(data.createdAt),
                        assignee |-> data.assignee, team |-> team_of(data.assignee)],
                   redis_ok)
    ELSE IF data.personType \in {"manager", "bot"}
    THEN LET manager_name == manager_name_of(data)
             assignee_name == IF data.chatId \in DOMAIN st.chat_cache
                              THEN st.chat_cache[data.chatId].assignee ELSE NoName
         IN remove_chat(st, data.chatId, manager_name, assignee_name, FALSE, redis_ok)
    ELSE st

\* process_user_chat that puts an opened conversation into chat_cache.
process_user_chat_adds(st, data, redis_ok) ==
    IF data.chatId = 0
    THEN st
    ELSE IF data.state = "opened"
    THEN [st EXCEPT !.chat_cache =
             Put(@, data.chatId, [id |-> data.chatId, lastMessage |-> 0,
                                  timestamp |-> isoformat(st.now),
                                  assignee |-> data.assignee,
                                  team |-> team_of(data.assignee)])]
    ELSE IF data.state \in {"closed", "resolved", "snoozed"}
    THEN remove_chat(st, data.chatId, NoName, NoName, FALSE, redis_ok)
    ELSE st

process_user_chat(st, data, redis_ok) ==
    IF data.chatId = 0
    THEN st
    ELSE IF data.state = "opened"
    THEN IF data.chatId \in DOMAIN st.chat_cache /\ data.assignee # NoName
         THEN [st EXCEPT !.chat_cache[data.chatId] =
                   [@ EXCEPT !.assignee = data.assignee,
                             !.team = IF team_of(data.assignee) # NoName
                                      THEN team_of(data.assignee) ELSE UNASSIGNED]]
         ELSE st
    ELSE IF data.state \in {"closed", "resolved", "snoozed"}
    THEN remove_chat(st, data.chatId, NoName, NoName, FALSE, redis_ok)
    ELSE st

\* The query strings of the requests: the values of the token parameter.
Queries == {<<>>, <<"wrong">>, <<"Ajung">>, <<WEBHOOK_TOKEN_MAIN>>}

\* token_ok without the comparison.
token_ok_any(tokens) == TRUE

token_ok(tokens) == \E i \in 1 .. Len(tokens) : tokens[i] = WEBHOOK_TOKEN_MAIN

\* handle_webhook with the task it spawns run to its end: [status, st].
handle_webhook(st, tokens, data, redis_ok) ==
    IF ~token_ok(tokens)
    THEN [status |-> 401, st |-> st]
    ELSE [status |-> 200,
          st |-> IF data.type = "message" THEN process_message(st, data, redis_ok)
                 ELSE IF data.type = "userChat" THEN process_user_chat(st, data, redis_ok)
                 ELSE st]

mark_answered(st, chat_id, manager_name, assignee, redis_ok) ==
    [status |-> 200, st |-> remove_chat(st, chat_id, manager_name, assignee, FALSE, redis_ok)]

\* The age test of the sweep, on the record stored under chat:{id}.
too_old(st, chat_data) ==
    (st.now - fromisoformat(chat_data.timestamp)) > MAX_AGE_HOURS * 3600

\* The loop of the sweep over the members of 'unanswered_chats', smallest id
\* first.  pipeline_ok = FALSE: the pipeline of remove_chat raises.
RECURSIVE cleanup_loop(_, _, _)
cleanup_loop(st, chat_ids, pipeline_ok) ==
    IF chat_ids = {}
    THEN st
    ELSE LET chat_id == CHOOSE c \in chat_ids : \A d \in chat_ids : c <= d
             s1 == IF chat_id \in DOMAIN st.redis_chat
                      /\ too_old(st, st.redis_chat[chat_id].value)
                   THEN \* try: ... except: pass
                        except_log(remove_chat(st, chat_id, NoName, NoName, TRUE, pipeline_ok))
                   ELSE st
         IN cleanup_loop(s1, chat_ids \ {chat_id}, pipeline_ok)

\* outcome "read_fails": smembers or get raises; "pipeline_fails": the
\* pipeline of remove_chat raises; "ok": every Redis command goes through.
cleanup_old_data(st, outcome) ==
    IF outcome = "read_fails"
    THEN except_log([st EXCEPT !.exc = TRUE])
    ELSE except_log(cleanup_loop(st, st.unanswered_chats, outcome = "ok"))

\* ------------------------------------------------------------ server.py
\* str.upper(), on the tokens of this model
Upper(t) ==
    CASE t \in {"Ajung", "ajung", "AJUNG"} -> "AJUNG"
      [] t = WEBHOOK_TOKEN_MAIN -> "80AB2D11835F44B89010C8EFA5EEC4B4"
      [] t = "wrong" -> "WRONG"
      [] OTHER -> t

valid_tokens == <<"AJUNG", "ajung", WEBHOOK_TOKEN_MAIN, WEBHOOK_TOKEN_SERVER>>

token_ok_server(tokens) ==
    \E i \in 1 .. Len(tokens) :
        \E j \in 1 .. Len(valid_tokens) : Upper(tokens[i]) = Upper(valid_tokens[j])

save_chat_server(st, chat_data, redis_ok) ==
    LET chat_id == chat_data.id
        s1 == IF st.redis_up /\ redis_ok
              THEN [st EXCEPT !.redis_chat = Put(@, chat_id, [value |-> chat_data,
                                                              exp |-> st.now + SERVER_TTL]),
                              !.unanswered_chats = @ \cup {chat_id}]
              ELSE [st EXCEPT !.memory_cache = Put(@, chat_id, chat_data)]
    IN broadcast(s1, [type |-> "new_chat", chat |-> chat_data])

remove_chat_server(st, chat_id, redis_ok) ==
    LET s1 == IF st.redis_up /\ redis_ok
              THEN [st EXCEPT !.redis_chat = Del(@, chat_id),
                              !.unanswered_chats = @ \ {chat_id}]
              ELSE [st EXCEPT !.memory_cache = Del(@, chat_id)]
    IN broadcast(s1, [type |-> "chat_answered", chatId |-> chat_id])

process_message_server(st, data, redis_ok) ==
    IF data.chatId = 0
    THEN st
    ELSE IF data.personType = "user"
    THEN save_chat_server(st, [id |-> data.chatId, lastMessage |-> data.plainText,
                               timestamp |-> data.createdAt, waitMinutes |-> 0],
                          redis_ok)
    ELSE IF data.personType \in {"manager", "bot"}
    THEN remove_chat_server(st, data.chatId, redis_ok)
    ELSE st

process_user_chat_server(st, data, redis_ok) ==
    IF data.state \in {"closed", "resolved"} /\ data.chatId # 0
    THEN remove_chat_server(st, data.chatId, redis_ok)
    ELSE st

handle_webhook_server(st, tokens, data, redis_ok) ==
    IF ~token_ok_server(tokens)
    THEN [status |-> 401, st |-> st]
    ELSE [status |-> 200,
          st |-> IF data.type = "message" THEN process_message_server(st, data, redis_ok)
                 ELSE IF data.type = "userChat"
                 THEN process_user_chat_server(st, data, redis_ok)
                 ELSE st]

mark_answered_server(st, chat_id, redis_ok) ==
    [status |-> 200, st |-> remove_chat_server(st, chat_id, redis_ok)]

\* int((utcnow() - created).total_seconds() / 60) of get_all_chats: the
\* timestamp stored by process_message is the createdAt number of the payload,
\* which has no replace(); the except branch sets waitMinutes to 0.
wait_minutes_server(st, timestamp) == 0

\* get_all_chats: [chats, st].  With Redis, the members of 'unanswered_chats'
\* whose key is gone are removed from the set; when Redis raises, and in
\* memory mode, the chats are those of memory_cache.
get_all_chats_server(st, redis_ok) ==
    LET timed(ch) == [ch EXCEPT !.waitMinutes = wait_minutes_server(st, ch.timestamp)]
        from_memory == {timed(st.memory_cache[c]) : c \in DOMAIN st.memory_cache}
    IN IF st.redis_up /\ redis_ok
       THEN [chats |-> {timed(st.redis_chat[c].value) :
                           c \in st.unanswered_chats \cap DOMAIN st.redis_chat},
             st |-> [st EXCEPT !.unanswered_chats = @ \cap DOMAIN st.redis_chat]]
       ELSE [chats |-> from_memory, st |-> st]

\* ------------------------------------------------------------ broadcast
\* A call of broadcast(data) that has not started.  state: "idle", "sending"
\* (main.py: the sends of gather are under way), "iterating" (server.py: the
\* loop over self.websockets is under way), "done", "raised".
\*   pending   main.py: the viewers of the snapshot not sent to yet
\*   size      server.py: len(self.websockets) when the iterator was made
\*   todo      server.py: the viewers in the part of the hash table that the
\*             iterator has not passed yet
\*   dead      server.py: the list `dead`
\*   stayed    history: in the set at the start and ever since
\*   after     history: the calls that had ended when this one started
IdleCall ==
    [state |-> "idle", pending |-> {}, size |-> 0, todo |-> {}, dead |-> {},
     stayed |-> {}, after |-> {}]

Ended(cs) == {c \in DOMAIN cs : cs[c].state \in {"done", "raised"}}

Iterating(cs) == {c \in DOMAIN cs : cs[c].state = "iterating"}

\* self.websockets.discard(ws) of a member: the entry leaves the table, the
\* other entries stay where they are.
discard(cs, v) ==
    [c \in DOMAIN cs |->
        IF cs[c].state \in {"sending", "iterating"}
        THEN [cs[c] EXCEPT !.todo = @ \ {v}, !.stayed = @ \ {v}]
        ELSE cs[c]]

\* What self.websockets.add(ws) can leave ahead of the iterators under way.
\* The new entry lands before or after an iterator, and an add that resizes
\* the table puts every entry in a new place, by the hash of its address, while
\* the iterators keep their index: what is ahead of an iterator is then any
\* part of the set.  The iterators walk one table, so the parts are nested.
add_outcomes(cs, ws2) ==
    {t \in [DOMAIN cs -> SUBSET ws2] :
        /\ \A c \in DOMAIN cs \ Iterating(cs) : t[c] = {}
        /\ \A c, d \in Iterating(cs) : t[c] \subseteq t[d] \/ t[d] \subseteq t[c]}

add(cs, t) ==
    [c \in DOMAIN cs |->
        IF c \in Iterating(cs) THEN [cs[c] EXCEPT !.todo = t[c]] ELSE cs[c]]

\* ws.send_json(data) of call c to viewer v: it raises on a dead connection.
send_json(sn, c, v, raises) ==
    [sn EXCEPT ![c][v] = IF raises THEN [@ EXCEPT !.failed = @ + 1]
                         ELSE [@ EXCEPT !.ok = @ + 1]]

\* main.py broadcast, up to the gather: the snapshot list(self.websockets).
broadcast_start(cs, c, ws) ==
    IF ws = {}
    THEN [cs EXCEPT ![c] = [@ EXCEPT !.state = "done", !.after = Ended(cs)]]
    ELSE [cs EXCEPT ![c] = [@ EXCEPT !.state = "sending", !.pending = ws,
                                    !.stayed = ws, !.after = Ended(cs)]]

\* server.py broadcast, up to the loop: iter(self.websockets).
broadcast_start_server(cs, c, ws) ==
    IF ws = {}
    THEN [cs EXCEPT ![c] = [@ EXCEPT !.state = "done", !.after = Ended(cs)]]
    ELSE [cs EXCEPT ![c] = [@ EXCEPT !.state = "iterating", !.size = Cardinality(ws),
                                    !.todo = ws, !.stayed = ws, !.after = Ended(cs)]]

\* What next() of the set iterator of a call does: it raises RuntimeError when
\* the size of the set differs from the size the iterator started with, it
\* stops when nothing is ahead of it, and else it yields a viewer ahead of it.
iter_next(call, ws) ==
    IF Cardinality(ws) # call.size THEN {[kind |-> "raise", ws |-> 0]}
    ELSE IF call.todo = {} THEN {[kind |-> "stop", ws |-> 0]}
    ELSE {[kind |-> "yield", ws |-> v] : v \in call.todo}

\* ------------------------------------------------------------- the steps
\* Whether the Redis commands of a request handler go through.  In Spec they
\* do; the sweep is also run against a failing Redis.
RedisOutcomes == {TRUE}

\* A chat_data dict that was never filled in.
NoData == [id |-> 0, lastMessage |-> 0, timestamp |-> isoformat(0),
           assignee |-> NoName, team |-> NoName]

\* A coroutine of main.py between two awaits: `kind` is the function it runs,
\* `pc` the await it is suspended at, the other fields are its local variables
\* (chat: chat_id; data: chat_data; ids, keys, todo: the sets it holds; srem:
\* results[2]; via: the caller of remove_chat).  `outcome` and `began_with`
\* are history: how the task ended, and the tasks in flight when it began.
IdleTask ==
    [kind |-> "none", pc |-> "idle", chat |-> 0, data |-> NoData,
     manager |-> NoName, assignee |-> NoName, cleanup |-> FALSE,
     ids |-> {}, keys |-> {}, todo |-> {}, srem |-> FALSE,
     via |-> "", outcome |-> "", began_with |-> {}]

\* History per conversation: pended counts the times it became a member of
\* 'unanswered_chats', answered the 'chat_answered' broadcasts about it, and
\* removed says that remove_chat has removed it and no customer message has
\* been taken up since.
NoHist ==
    [pended |-> [c \in TaskChats |-> 0], answered |-> [c \in TaskChats |-> 0],
     removed |-> [c \in TaskChats |-> FALSE]]

NoEvent == Event("", 0, "", 0, 0, NoName, NoName, "")

IsMessage(data) ==
    data.type = "message" /\ data.chatId # 0 /\ data.personType \in {"user", "manager", "bot"}

Init ==
    /\ program \in {"main", "server"}
    /\ now = 0
    /\ unanswered_chats = {}
    /\ redis_chat = EmptyDict
    /\ redis_messages = EmptyDict
    /\ stats_total = EmptyDict
    /\ stats_today = EmptyDict
    /\ ranking_total = EmptyDict
    /\ ranking_daily = EmptyDict
    /\ chat_cache = EmptyDict
    /\ chat_messages = EmptyDict
    /\ memory_cache = EmptyDict
    /\ redis_up \in (IF program = "main" THEN {TRUE} ELSE BOOLEAN)
    /\ outbox = <<>>
    /\ last = [op |-> "setup"]
    /\ seen = {}
    /\ last_msg = EmptyDict
    /\ websockets = {}
    /\ opened = {}
    /\ broken = {}
    /\ calls = [c \in Calls |-> IdleCall]
    /\ sends = [c \in Calls |-> [v \in Viewers |-> [ok |-> 0, failed |-> 0]]]
    /\ tasks = [t \in TaskIds |-> IdleTask]
    /\ hist = NoHist

\* What identifies a delivery: a customer message by conversation, text and
\* createdAt, a reply by conversation, author type and author.
Delivery(data) ==
    <<data.chatId, data.personType, data.plainText, data.createdAt, data.manager>>

\* What the history keeps of a payload: the kind of event it is.
Kind(data) ==
    IF data.type = "message" /\ data.chatId # 0 /\ data.personType = "user" THEN "customer"
    ELSE IF IsMessage(data) THEN "staff"
    ELSE IF data.type = "userChat" /\ data.chatId # 0 /\ data.state = "opened" THEN "opened"
    ELSE IF data.type = "userChat" /\ data.chatId # 0 THEN "closed"
    ELSE "unhandled"

\* A webhook request without an accepted token.
RejectWebhook ==
    \E tokens \in Queries :
        LET r == IF program = "main"
                 THEN handle_webhook(State, tokens, NoEvent, TRUE)
                 ELSE handle_webhook_server(State, tokens, NoEvent, TRUE)
        IN /\ r.status = 401
           /\ Apply(r.st)
           /\ last' = [op |-> "handle_webhook", tokens |-> tokens, status |-> r.status,
                       kind |-> "", chat_id |-> 0, redelivery |-> FALSE]
           /\ UNCHANGED <<program, now, redis_up, seen, last_msg, broadcastVars, taskVars>>

\* A webhook request with an accepted token, and in main.py the task it spawns.
HandleWebhook ==
    \E tokens \in Queries, data \in Events(now), redis_ok \in RedisOutcomes :
        LET r == IF program = "main"
                 THEN handle_webhook(State, tokens, data, redis_ok)
                 ELSE handle_webhook_server(State, tokens, data, redis_ok)
            seen2 == IF IsMessage(data) /\ (program = "server" \/ data.personType = "user")
                     THEN seen \cup {Delivery(data)} ELSE seen
        IN /\ r.status = 200
           /\ WithinBounds(r.st)
           /\ Cardinality(seen2) <= MaxCount
           /\ Apply(r.st)
           /\ last' = [op |-> "handle_webhook", tokens |-> tokens, status |-> r.status,
                       kind |-> Kind(data), chat_id |-> data.chatId,
                       redelivery |-> Delivery(data) \in seen]
           /\ seen' = seen2
           /\ last_msg' = IF IsMessage(data)
                          THEN Put(last_msg, data.chatId,
                                   [personType |-> data.personType, createdAt |-> data.createdAt])
                          ELSE last_msg
           /\ UNCHANGED <<program, now, redis_up, broadcastVars, taskVars>>

\* POST /api/chats/{chat_id}/answer
MarkAnswered ==
    \E chat_id \in ChatIds, redis_ok \in RedisOutcomes :
        LET r == IF program = "main"
                 THEN mark_answered(State, chat_id, "Manual", NoName, redis_ok)
                 ELSE mark_answered_server(State, chat_id, redis_ok)
        IN /\ WithinBounds(r.st)
           /\ Apply(r.st)
           /\ last' = [op |-> "mark_answered", chat_id |-> chat_id, status |-> r.status]
           /\ UNCHANGED <<program, now, redis_up, seen, last_msg, broadcastVars, taskVars>>

\* One pass of _periodic_cleanup (main.py).
Sweep(outcome) ==
    /\ program = "main"
    /\ LET st2 == cleanup_old_data(State, outcome)
       IN /\ Apply(st2)
          /\ last' = [op |-> "cleanup", outcome |-> outcome, raised |-> st2.exc,
                      removed |-> unanswered_chats \ st2.unanswered_chats]
    /\ UNCHANGED <<program, now, redis_up, seen, last_msg, broadcastVars, taskVars>>

Cleanup == \E outcome \in {"ok", "read_fails", "pipeline_fails"} : Sweep(outcome)

\* The clock advances; Redis drops the keys whose time-to-live has run out.
Tick ==
    /\ now < MaxTicks * TickSeconds
    /\ now' = now + TickSeconds
    /\ redis_chat' = expire_keys(redis_chat, now')
    /\ redis_messages' = expire_keys(redis_messages, now')
    /\ outbox' = <<>>
    /\ last' = [op |-> "tick"]
    /\ UNCHANGED <<program, unanswered_chats, stats_total, stats_today, ranking_total,
                   ranking_daily, chat_cache, chat_messages, memory_cache, redis_up,
                   seen, last_msg, broadcastVars, taskVars>>

Next == RejectWebhook \/ HandleWebhook \/ MarkAnswered \/ Cleanup \/ Tick

Spec == Init /\ [][Next]_vars

\* GET /api/chats of server.py, and the first send of handle_websocket.
GetChats ==
    /\ program = "server"
    /\ \E redis_ok \in BOOLEAN :
        LET r == get_all_chats_server(State, redis_ok)
        IN /\ Apply(r.st)
           /\ last' = [op |-> "get_chats", reported |-> {ch.id : ch \in r.chats}]
    /\ UNCHANGED <<program, now, redis_up, seen, last_msg, broadcastVars, taskVars>>

\* server.py alone, with its snapshot endpoint.
ServerInit == Init /\ program = "server"

ServerNext == RejectWebhook \/ HandleWebhook \/ MarkAnswered \/ GetChats \/ Tick

ServerSpec == ServerInit /\ [][ServerNext]_vars

\* ------------------------------------------------- the steps of broadcast
\* handle_websocket up to self.websockets.add(ws).  Viewers are numbered in
\* the order they connect.
Connect ==
    \E v \in Viewers \ opened :
        /\ \A u \in Viewers : u < v => u \in opened
        /\ websockets' = websockets \cup {v}
        /\ opened' = opened \cup {v}
        /\ \E t \in add_outcomes(calls, websockets') : calls' = add(calls, t)
        /\ UNCHANGED <<program, storeVars, taskVars, broken, sends>>

\* The connection of a viewer closes: handle_websocket leaves its loop and
\* discards the viewer.
Disconnect ==
    \E v \in websockets :
        /\ websockets' = websockets \ {v}
        /\ broken' = broken \cup {v}
        /\ calls' = discard(calls, v)
        /\ UNCHANGED <<program, storeVars, taskVars, opened, sends>>

\* The connection of a viewer dies; its handler has not noticed yet.
Break ==
    \E v \in websockets \ broken :
        /\ broken' = broken \cup {v}
        /\ UNCHANGED <<program, storeVars, taskVars, websockets, opened, calls, sends>>

\* broadcast(data) is called.  Calls are numbered in the order they start.
Start ==
    \E c \in Calls :
        /\ calls[c].state = "idle"
        /\ \A d \in Calls : d < c => calls[d].state # "idle"
        /\ calls' = IF program = "main" THEN broadcast_start(calls, c, websockets)
                     ELSE broadcast_start_server(calls, c, websockets)
        /\ UNCHANGED <<program, storeVars, taskVars, websockets, opened, broken, sends>>

\* main.py: one _send_to_ws of the gather.
Send ==
    \E c \in Calls :
        /\ program = "main"
        /\ calls[c].state = "sending"
        /\ \E v \in calls[c].pending :
            LET raises == v \in broken
                cs == IF raises /\ v \in websockets THEN discard(calls, v) ELSE calls
            IN /\ sends' = send_json(sends, c, v, raises)
               /\ websockets' = IF raises THEN websockets \ {v} ELSE websockets
               /\ calls' = [cs EXCEPT ![c].pending = @ \ {v}]
        /\ UNCHANGED <<program, storeVars, taskVars, opened, broken>>

\* main.py: the gather is through, broadcast returns.
Return ==
    \E c \in Calls :
        /\ program = "main"
        /\ calls[c].state = "sending"
        /\ calls[c].pending = {}
        /\ calls' = [calls EXCEPT ![c].state = "done"]
        /\ UNCHANGED <<program, storeVars, taskVars, websockets, opened, broken, sends>>

\* The discards of `for ws in dead`, one after the other.
RECURSIVE discard_all(_, _)
discard_all(cs, vs) ==
    IF vs = {} THEN cs
    ELSE LET v == CHOOSE x \in vs : TRUE
         IN discard_all(discard(cs, v), vs \ {v})

\* server.py: one round of `for ws in self.websockets`, up to the await of
\* send_json; when the iterator stops, the viewers in `dead` are discarded.
Iterate ==
    \E c \in Calls :
        /\ program = "server"
        /\ calls[c].state = "iterating"
        /\ \E o \in iter_next(calls[c], websockets) :
            CASE o.kind = "raise" ->
                    /\ calls' = [calls EXCEPT ![c].state = "raised"]
                    /\ UNCHANGED <<websockets, sends>>
              [] o.kind = "stop" ->
                    LET gone == calls[c].dead \cap websockets
                    IN /\ websockets' = websockets \ gone
                       /\ calls' = [discard_all(calls, gone) EXCEPT ![c].state = "done"]
                       /\ UNCHANGED sends
              [] OTHER ->
                    LET v == o.ws
                        raises == v \in broken
                    IN /\ sends' = send_json(sends, c, v, raises)
                       /\ calls' = [calls EXCEPT
                               ![c].todo = @ \ {v},
                               ![c].dead = IF raises THEN @ \cup {v} ELSE @]
                       /\ UNCHANGED websockets
        /\ UNCHANGED <<program, storeVars, taskVars, opened, broken>>

BroadcastNext == Connect \/ Disconnect \/ Break \/ Start \/ Send \/ Return \/ Iterate

BroadcastSpec == Init /\ [][BroadcastNext]_vars

\* main.py with its timers firing: the clock advances, and the sweep runs
\* against a Redis that answers.
FairInit == Init /\ program = "main"

FairSpec == FairInit /\ [][Next]_vars /\ WF_vars(Tick) /\ WF_vars(Sweep("ok"))

\* --------------------------------------------------- the tasks of main.py
\* main.py runs every webhook in a task of its own (asyncio.create_task) next
\* to the periodic loops.  A task runs alone from one await to the next; at an
\* await on Redis the command is executed by Redis in one step and the task
\* resumes with the reply in a later step, and the tasks of other requests run
\* in between.  Tasks begin in the order in which they were created.

\* self.redis as it is when nothing was ever stored.
FreshState ==
    [now |-> 0, unanswered_chats |-> {}, redis_chat |-> EmptyDict,
     redis_messages |-> EmptyDict, stats_total |-> EmptyDict, stats_today |-> EmptyDict,
     ranking_total |-> EmptyDict, ranking_daily |-> EmptyDict, chat_cache |-> EmptyDict,
     chat_messages |-> EmptyDict, memory_cache |-> EmptyDict, redis_up |-> TRUE,
     outbox |-> <<>>, exc |-> FALSE]

\* The message an earlier run of the service stored for conversation 1.
EarlierData ==
    with_defaults([id |-> 1, lastMessage |-> 0, timestamp |-> isoformat(0),
                   assignee |-> NoName, team |-> NoName])

\* Redis as an earlier run of the service left it: conversation 1 is pending.
\* The dicts of the process are empty again after the restart.
EarlierRun == save_chat_pipeline(FreshState, EarlierData, message_hash(EarlierData))

\* json.loads and datetime.fromisoformat of _initial_load do not raise: the
\* record under chat:{id} is JSON and its timestamp is an ISO string.
parses(chat_data) == chat_data.timestamp[1] = "iso"

\* initial_load without the age test.
initial_load_any_age(st) ==
    LET stored == st.unanswered_chats \cap DOMAIN st.redis_chat
        damaged == {c \in stored : ~parses(st.redis_chat[c].value)}
        kept == stored \ damaged
    IN [st EXCEPT !.unanswered_chats = kept,
                  !.redis_chat = [c \in (DOMAIN @) \ damaged |-> @[c]],
                  !.chat_cache = [c \in (DOMAIN @) \cup kept |->
                                     IF c \in kept THEN st.redis_chat[c].value ELSE @[c]]]

\* _initial_load, without a Channel API key: the members of 'unanswered_chats'
\* are loaded into chat_cache; those without a chat:{id} key leave the set,
\* those whose record raises (the except branch) and those older than 12
\* hours leave the set and lose their key.  chat_messages is not loaded.
initial_load(st) ==
    LET stored == st.unanswered_chats \cap DOMAIN st.redis_chat
        damaged == {c \in stored : ~parses(st.redis_chat[c].value)}
        old == {c \in stored \ damaged : too_old(st, st.redis_chat[c].value)}
        kept == stored \ (damaged \cup old)
    IN [st EXCEPT !.unanswered_chats = kept,
                  !.redis_chat = [c \in (DOMAIN @) \ (damaged \cup old) |-> @[c]],
                  !.chat_cache = [c \in (DOMAIN @) \cup kept |->
                                     IF c \in kept THEN st.redis_chat[c].value ELSE @[c]]]

\* get_all_chats of main.py: the ids of the records it returns.  The sorted
\* set 'chats_by_time' holds the ids of 'unanswered_chats' in every state of
\* this model, so the members of the set stand for both.
get_all_chats(st) ==
    LET chats == IF DOMAIN st.chat_cache # {}
                 THEN {st.chat_cache[c] : c \in DOMAIN st.chat_cache}
                 ELSE {st.redis_chat[c].value : c \in st.unanswered_chats \cap DOMAIN st.redis_chat}
    IN {chat.id : chat \in {ch \in chats : ~((st.now - fromisoformat(ch.timestamp)) > 43200)}}

\* hidden_from_view without the comparison.
hidden_never(wait_seconds) == FALSE

\* get_all_chats: `if wait_seconds > 43200: continue`
hidden_from_view(wait_seconds) == wait_seconds > 43200

\* valid_chats.sort(key=waitSeconds, reverse=True).  Records of equal
\* waitSeconds keep the order of the dict in Python; that order is not
\* modelled and one of them is taken first.
RECURSIVE sort_by_wait(_)
sort_by_wait(chats) ==
    IF chats = {}
    THEN <<>>
    ELSE LET first == CHOOSE x \in chats : \A y \in chats : x.waitSeconds >= y.waitSeconds
         IN <<first>> \o sort_by_wait(chats \ {first})

\* get_all_chats of main.py: the list it returns, each record with the
\* fields the wait computation reads and writes.
get_all_chats_sorted(st) ==
    LET chats == IF DOMAIN st.chat_cache # {}
                 THEN {st.chat_cache[c] : c \in DOMAIN st.chat_cache}
                 ELSE {st.redis_chat[c].value : c \in st.unanswered_chats \cap DOMAIN st.redis_chat}
        wait_seconds(chat) == st.now - fromisoformat(chat.timestamp)
        valid_chats == {[id |-> chat.id, timestamp |-> chat.timestamp,
                         waitMinutes |-> IF wait_seconds(chat) > 0
                                         THEN wait_seconds(chat) \div 60 ELSE 0,
                         waitSeconds |-> IF wait_seconds(chat) > 0
                                         THEN wait_seconds(chat) ELSE 0] :
                            chat \in {ch \in chats : ~hidden_from_view(wait_seconds(ch))}}
    IN sort_by_wait(valid_chats)

InFlight(ts) == {t \in TaskIds : ts[t].kind # "none" /\ ts[t].pc # "done"}

\* t is the next task to be created.
Free(t) ==
    /\ tasks[t].kind = "none"
    /\ \A u \in TaskIds : u < t => tasks[u].kind # "none"
    /\ Cardinality(InFlight(tasks)) < MaxInFlight

Begin(kind, pc) ==
    [IdleTask EXCEPT !.kind = kind, !.pc = pc, !.began_with = InFlight(tasks)]

Done(task, outcome) ==
    [task EXCEPT !.pc = "done", !.outcome = outcome, !.ids = {}, !.keys = {}, !.todo = {}]

\* The chat_data dict process_message builds from a customer message.
chat_data_of(data) ==
    [id |-> data.chatId, lastMessage |-> data.plainText,
     timestamp |-> isoformat(data.createdAt),
     assignee |-> data.assignee, team |-> team_of(data.assignee)]

\* save_chat from the duplicate test to pipe.execute().  A conversation whose
\* entry of chat_messages was deleted in the meantime raises KeyError.
save_chat_check(st, task) ==
    LET chat_id == task.chat
        h == message_hash(task.data)
    IN IF chat_id \notin DOMAIN st.chat_messages
       THEN [st |-> st, task |-> Done(task, "error")]
       ELSE IF h \in st.chat_messages[chat_id]
       THEN [st |-> st, task |-> Done(task, "duplicate")]
       ELSE [st |-> [st EXCEPT !.chat_messages[chat_id] = @ \cup {h}],
             task |-> [task EXCEPT !.pc = "execute", !.data = with_defaults(@)]]

\* save_chat up to its first await.
save_chat_begin(st, task) ==
    IF task.chat \in DOMAIN st.chat_messages
    THEN save_chat_check(st, task)
    ELSE [st |-> [st EXCEPT !.chat_messages = Put(@, task.chat, {})],
          task |-> [task EXCEPT !.pc = "smembers"]]

\* save_chat resumes with existing_hashes.
save_chat_loaded(st, task) ==
    save_chat_check(IF task.ids # {}
                    THEN [st EXCEPT !.chat_messages = Put(@, task.chat, task.ids)]
                    ELSE st,
                    [task EXCEPT !.ids = {}])

\* The deletions at the end of _sync_data, smallest id first; a key that is
\* no longer in chat_cache raises KeyError and ends the pass.
RECURSIVE sync_delete(_, _)
sync_delete(st, chat_ids) ==
    IF chat_ids = {}
    THEN st
    ELSE LET chat_id == CHOOSE c \in chat_ids : \A d \in chat_ids : c <= d
         IN IF chat_id \notin DOMAIN st.chat_cache
            THEN except_log([st EXCEPT !.exc = TRUE])
            ELSE sync_delete([st EXCEPT !.chat_cache = Del(@, chat_id),
                                        !.chat_messages = Del(@, chat_id)],
                             chat_ids \ {chat_id})

\* One step of task t: the store and the task change as r says.
TaskStep(t, r, op) ==
    /\ Apply(r.st)
    /\ tasks' = [tasks EXCEPT ![t] = r.task]
    /\ last' = [op |-> op, task |-> t]
    /\ UNCHANGED <<program, now, redis_up, seen, last_msg, broadcastVars>>

TaskCustomerMessages == {data \in CustomerMessages(now) : data.chatId \in TaskChats}

TaskStaffMessages == {data \in StaffMessages : data.chatId \in TaskChats}

\* handle_webhook takes a customer message; its task runs process_message
\* and save_chat up to the first await.
CustomerMessage(t) ==
    /\ Free(t)
    /\ \E data \in TaskCustomerMessages :
        /\ TaskStep(t, save_chat_begin(State, [Begin("save", "start") EXCEPT
                                                   !.chat = data.chatId,
                                                   !.data = chat_data_of(data)]),
                    "customer_message")
        /\ hist' = [hist EXCEPT !.removed[data.chatId] = FALSE]

\* Redis executes SMEMBERS chat:{id}:messages.
SaveSmembers(t) ==
    /\ tasks[t].kind = "save" /\ tasks[t].pc = "smembers"
    /\ TaskStep(t, [st |-> State,
                    task |-> [tasks[t] EXCEPT
                                 !.pc = "loaded",
                                 !.ids = IF tasks[t].chat \in DOMAIN redis_messages
                                         THEN redis_messages[tasks[t].chat].value ELSE {}]],
                "save_smembers")
    /\ UNCHANGED hist

SaveLoaded(t) ==
    /\ tasks[t].kind = "save" /\ tasks[t].pc = "loaded"
    /\ TaskStep(t, save_chat_loaded(State, tasks[t]), "save_loaded")
    /\ UNCHANGED hist

\* Redis executes the pipeline of save_chat, or the pipeline raises.
SaveExecute(t) ==
    /\ tasks[t].kind = "save" /\ tasks[t].pc = "execute"
    /\ \E redis_ok \in BOOLEAN :
        LET st2 == save_chat_pipeline(State, tasks[t].data, message_hash(tasks[t].data))
        IN IF redis_ok
           THEN /\ TaskStep(t, [st |-> st2, task |-> [tasks[t] EXCEPT !.pc = "resume"]],
                            "save_execute")
                /\ hist' = [hist EXCEPT !.pended[tasks[t].chat] =
                                IF tasks[t].chat \in unanswered_chats THEN @ ELSE @ + 1]
           ELSE /\ TaskStep(t, [st |-> State, task |-> Done(tasks[t], "failed")],
                            "save_execute")
                /\ UNCHANGED hist

SaveResume(t) ==
    /\ tasks[t].kind = "save" /\ tasks[t].pc = "resume"
    /\ TaskStep(t, [st |-> save_chat_resume(State, tasks[t].data),
                    task |-> Done(tasks[t], "stored")],
                "save_resume")
    /\ UNCHANGED hist

\* A task enters remove_chat and sends its pipeline.
RemoveBegin(t, via, chat_id, manager_name, assignee, cleanup) ==
    /\ TaskStep(t, [st |-> State,
                    task |-> [Begin("remove", "execute") EXCEPT
                                 !.chat = chat_id, !.manager = manager_name,
                                 !.assignee = assignee, !.cleanup = cleanup,
                                 !.via = via]],
                via)
    /\ UNCHANGED hist

\* handle_webhook takes a reply of a manager or a bot.
StaffReply(t) ==
    /\ Free(t)
    /\ \E data \in TaskStaffMessages :
        LET manager_name == manager_name_of(data)
            assignee_name == IF data.chatId \in DOMAIN chat_cache
                             THEN chat_cache[data.chatId].assignee ELSE NoName
        IN RemoveBegin(t, "reply", data.chatId, manager_name, assignee_name, FALSE)

\* handle_webhook takes a userChat event that closes the conversation.
Closed(t) ==
    /\ Free(t)
    /\ \E chat_id \in TaskChats : RemoveBegin(t, "closed", chat_id, NoName, NoName, FALSE)

\* POST /api/chats/{chat_id}/answer
ManualAnswer(t) ==
    /\ Free(t)
    /\ \E chat_id \in TaskChats : RemoveBegin(t, "manual", chat_id, "Manual", NoName, FALSE)

\* _cleanup_old_data has read a member of 'unanswered_chats' that is older
\* than 12 hours and calls remove_chat(chat_id, cleanup=True).
SweepOne(t) ==
    /\ Free(t)
    /\ \E chat_id \in TaskChats :
        /\ chat_id \in unanswered_chats
        /\ chat_id \in DOMAIN redis_chat
        /\ too_old(State, redis_chat[chat_id].value)
        /\ RemoveBegin(t, "sweep", chat_id, NoName, NoName, TRUE)

\* Redis executes the pipeline of remove_chat, or the pipeline raises.
RemoveExecute(t) ==
    /\ tasks[t].kind = "remove" /\ tasks[t].pc = "execute"
    /\ \E redis_ok \in BOOLEAN :
        LET task == tasks[t]
            st2 == remove_chat_pipeline(State, task.chat, task.manager, task.assignee,
                                        task.cleanup)
        IN IF redis_ok
           THEN TaskStep(t, [st |-> st2,
                             task |-> [task EXCEPT !.pc = "resume",
                                                   !.srem = task.chat \in unanswered_chats]],
                         "remove_execute")
           ELSE TaskStep(t, [st |-> State, task |-> Done(task, "failed")], "remove_execute")
    /\ UNCHANGED hist

RemoveResume(t) ==
    /\ tasks[t].kind = "remove" /\ tasks[t].pc = "resume"
    /\ LET task == tasks[t]
           st2 == remove_chat_resume(State, task.chat, task.manager, task.cleanup, task.srem)
       IN /\ TaskStep(t, [st |-> st2, task |-> Done(task, "removed")], "remove_resume")
          /\ hist' = [hist EXCEPT
                         !.answered[task.chat] = @ + Len(st2.outbox),
                         !.removed[task.chat] = @ \/ task.srem]

\* A pass of _periodic_sync begins: _sync_data sends SMEMBERS.
SyncBegin(t) ==
    /\ Free(t)
    /\ \A u \in InFlight(tasks) : tasks[u].kind # "sync"
    /\ TaskStep(t, [st |-> State, task |-> Begin("sync", "smembers")], "sync_begin")
    /\ UNCHANGED hist

\* Redis executes SMEMBERS unanswered_chats.
SyncSmembers(t) ==
    /\ tasks[t].kind = "sync" /\ tasks[t].pc = "smembers"
    /\ TaskStep(t, [st |-> State,
                    task |-> [tasks[t] EXCEPT !.pc = "members", !.ids = unanswered_chats]],
                "sync_smembers")
    /\ UNCHANGED hist

\* _sync_data from one await to the next: it asks for the next conversation
\* that is in Redis only, or deletes those that are in the cache only.
sync_continue(st, task) ==
    IF task.todo # {}
    THEN [st |-> st, task |-> [task EXCEPT !.pc = "get"]]
    ELSE [st |-> sync_delete(st, task.keys \ task.ids), task |-> Done(task, "synced")]

\* _sync_data resumes with redis_ids.
SyncMembers(t) ==
    /\ tasks[t].kind = "sync" /\ tasks[t].pc = "members"
    /\ TaskStep(t, sync_continue(State, [tasks[t] EXCEPT
                                           !.keys = DOMAIN chat_cache,
                                           !.todo = tasks[t].ids \ DOMAIN chat_cache]),
                "sync_members")
    /\ UNCHANGED hist

\* Redis executes GET chat:{id} for one of the ids that are left.
SyncGet(t) ==
    /\ tasks[t].kind = "sync" /\ tasks[t].pc = "get"
    /\ \E chat_id \in tasks[t].todo :
        TaskStep(t, [st |-> State,
                     task |-> [tasks[t] EXCEPT
                                  !.pc = "got", !.chat = chat_id,
                                  !.data = IF chat_id \in DOMAIN redis_chat
                                           THEN redis_chat[chat_id].value ELSE NoData]],
                 "sync_get")
    /\ UNCHANGED hist

\* _sync_data resumes with chat_data.
SyncGot(t) ==
    /\ tasks[t].kind = "sync" /\ tasks[t].pc = "got"
    /\ LET task == tasks[t]
           s1 == IF task.data # NoData
                 THEN [State EXCEPT !.chat_cache = Put(@, task.chat, task.data)]
                 ELSE State
       IN TaskStep(t, sync_continue(s1, [task EXCEPT !.todo = @ \ {task.chat},
                                                     !.chat = 0, !.data = NoData]),
                   "sync_got")
    /\ UNCHANGED hist

\* A pass of _periodic_api_enrich begins, with a Channel API key configured:
\* it takes list(self.chat_cache.items()) and asks the API about the first
\* conversation without an assignee.
EnrichBegin(t) ==
    /\ Free(t)
    /\ \A u \in InFlight(tasks) : tasks[u].kind # "enrich"
    /\ \E chat_id \in TaskChats \cap DOMAIN chat_cache :
        /\ chat_cache[chat_id].assignee \in {NoName, UNASSIGNED}
        /\ TaskStep(t, [st |-> State,
                        task |-> [Begin("enrich", "api") EXCEPT
                                     !.chat = chat_id, !.data = chat_cache[chat_id]]],
                    "enrich_begin")
    /\ UNCHANGED hist

\* enrich_chat_with_api_data returns: with an assignee the record goes into
\* chat_cache and SETEX is sent, without one the pass goes on.
EnrichApi(t) ==
    /\ tasks[t].kind = "enrich" /\ tasks[t].pc = "api"
    /\ \E name \in {NoName, "Kim"} :
        LET task == tasks[t]
            enriched_data == [task.data EXCEPT !.assignee = name, !.team = team_of(name)]
        IN IF name = NoName
           THEN TaskStep(t, [st |-> State, task |-> Done(task, "unassigned")], "enrich_api")
           ELSE TaskStep(t, [st |-> [State EXCEPT
                                        !.chat_cache = Put(@, task.chat, enriched_data)],
                             task |-> [task EXCEPT !.pc = "setex", !.data = enriched_data]],
                         "enrich_api")
    /\ UNCHANGED hist

\* Redis executes SETEX chat:{id}; the pass ends with a 'data_enriched'
\* broadcast.
EnrichSetex(t) ==
    /\ tasks[t].kind = "enrich" /\ tasks[t].pc = "setex"
    /\ LET task == tasks[t]
           s1 == [State EXCEPT !.redis_chat = Put(@, task.chat,
                                                  [value |-> task.data,
                                                   exp |-> now + CACHE_TTL])]
       IN TaskStep(t, [st |-> broadcast(s1, [type |-> "data_enriched", count |-> 1]),
                       task |-> Done(task, "enriched")],
                   "enrich_setex")
    /\ UNCHANGED hist

\* The clock advances while no task is in flight.
TaskTick == InFlight(tasks) = {} /\ Tick

\* main.py after setup(): on a new Redis, or on the Redis of an earlier run.
TaskInit ==
    /\ program = "main"
    /\ now = 0
    /\ \E r \in {FreshState, EarlierRun} :
        LET st == initial_load(r)
        IN /\ unanswered_chats = st.unanswered_chats
           /\ redis_chat = st.redis_chat
           /\ redis_messages = st.redis_messages
           /\ stats_total = st.stats_total
           /\ stats_today = st.stats_today
           /\ ranking_total = st.ranking_total
           /\ ranking_daily = st.ranking_daily
           /\ chat_cache = st.chat_cache
           /\ chat_messages = st.chat_messages
           /\ memory_cache = st.memory_cache
           /\ hist = [NoHist EXCEPT !.pended = [c \in TaskChats |->
                                        IF c \in st.unanswered_chats THEN 1 ELSE 0]]
    /\ redis_up = TRUE
    /\ outbox = <<>>
    /\ last = [op |-> "setup"]
    /\ seen = {}
    /\ last_msg = EmptyDict
    /\ websockets = {}
    /\ opened = {}
    /\ broken = {}
    /\ calls = [c \in Calls |-> IdleCall]
    /\ sends = [c \in Calls |-> [v \in Viewers |-> [ok |-> 0, failed |-> 0]]]
    /\ tasks = [t \in TaskIds |-> IdleTask]

TaskNext ==
    \/ \E t \in TaskIds :
        \/ CustomerMessage(t) \/ SaveSmembers(t) \/ SaveLoaded(t)
        \/ SaveExecute(t) \/ SaveResume(t)
        \/ StaffReply(t) \/ Closed(t) \/ ManualAnswer(t) \/ SweepOne(t)
        \/ RemoveExecute(t) \/ RemoveResume(t)
        \/ SyncBegin(t) \/ SyncSmembers(t) \/ SyncMembers(t) \/ SyncGet(t) \/ SyncGot(t)
        \/ EnrichBegin(t) \/ EnrichApi(t) \/ EnrichSetex(t)
    \/ TaskTick

TaskSpec == TaskInit /\ [][TaskNext]_vars

\* ------------------------------------------------------------ the ranking
\* get_rankings: the (name, count) pairs of today's and of the total ranking.
\* The model has fewer than ten names, so the cut [:10] keeps every pair; the
\* order of the two lists is not modelled.
get_rankings(st) ==
    [daily |-> {<<k[2], st.ranking_daily[k]>> :
                    k \in {x \in DOMAIN st.ranking_daily :
                              x[1] = Date(st.now) /\ Lower(x[2]) # "bot"}},
     total |-> {<<k, st.ranking_total[k]>> :
                    k \in {x \in DOMAIN st.ranking_total : Lower(x) # "bot"}}]

\* The names refers.manager carries in a reply; NoName: no manager object.
RankNames == {NoName, "Kim", "Lee", "BOT"}

RankCustomerMessages ==
    {Event("message", c, "user", x, 0, NoName, a, "") :
        c \in ChatIds, x \in Texts, a \in {NoName, "Kim"}}

RankReplies ==
    {Event("message", c, p, 0, 0, m, NoName, "") :
        c \in ChatIds, p \in {"manager", "bot"}, m \in RankNames}

\* An accepted webhook of main.py and the task it spawns, run to its end.
\* `last` keeps what the event was and what the store held for its
\* conversation before it.
RankWebhook(op, data) ==
    LET r == handle_webhook(State, <<WEBHOOK_TOKEN_MAIN>>, data, TRUE)
    IN /\ WithinBounds(r.st)
       /\ Apply(r.st)
       /\ last' = [op |-> op, chat_id |-> data.chatId, personType |-> data.personType,
                   manager |-> manager_name_of(data),
                   pending |-> data.chatId \in unanswered_chats,
                   assignee |-> IF data.chatId \in DOMAIN chat_cache
                                THEN chat_cache[data.chatId].assignee ELSE NoName]
       /\ UNCHANGED <<program, now, redis_up, seen, last_msg, broadcastVars, taskVars>>

RankCustomer ==
    /\ program = "main"
    /\ \E data \in RankCustomerMessages : RankWebhook("customer", data)

RankOpened ==
    /\ program = "main"
    /\ \E data \in {e \in UserChatEvents : e.state = "opened"} : RankWebhook("opened", data)

RankReply ==
    /\ program = "main"
    /\ \E data \in RankReplies : RankWebhook("reply", data)

RankNext == RankCustomer \/ RankOpened \/ RankReply

RankSpec == FairInit /\ [][RankNext]_vars

\* ------------------------------------------------------------- the view
\* The conversations and the createdAt values of the customer messages: a
\* message may carry a time that the clock of the service has not reached.
ViewChats == 1 .. NumViewChats

ViewTimes == {k * TickSeconds : k \in 0 .. MaxTicks + 1}

ViewMessages ==
    {Event("message", c, "user", 1, k, NoName, NoName, "") : c \in ViewChats, k \in ViewTimes}

\* An accepted customer message of main.py, saved.
ViewCustomer ==
    /\ program = "main"
    /\ (IF "received" \in DOMAIN stats_total THEN stats_total["received"] ELSE 0)
            < MaxViewSaves
    /\ \E data \in ViewMessages :
        LET r == handle_webhook(State, <<WEBHOOK_TOKEN_MAIN>>, data, TRUE)
        IN /\ Apply(r.st)
           /\ last' = [op |-> "customer", chats |-> <<>>]
    /\ UNCHANGED <<program, now, redis_up, seen, last_msg, broadcastVars, taskVars>>

\* GET /api/chats of main.py.
ViewGetChats ==
    /\ program = "main"
    /\ last' = [op |-> "get_chats", chats |-> get_all_chats_sorted(State)]
    /\ outbox' = <<>>
    /\ UNCHANGED <<program, now, unanswered_chats, redis_chat, redis_messages,
                   stats_total, stats_today, ranking_total, ranking_daily,
                   chat_cache, chat_messages, memory_cache, redis_up,
                   seen, last_msg, broadcastVars, taskVars>>

ViewNext == ViewCustomer \/ ViewGetChats \/ Tick

ViewSpec == FairInit /\ [][ViewNext]_vars

\* ------------------------------------------------------------ the events
\* The userChat events by state; "queued" stands for a state neither
\* program names.
EventUserChats ==
    {Event("userChat", c, "", 0, 0, NoName, a, s) :
        c \in ChatIds, a \in {NoName, "Kim"},
        s \in {"opened", "closed", "resolved", "snoozed", "queued"}}

\* The events neither program handles: another type, a message without
\* chatId, a message of an author that is neither customer nor staff.
EventUnhandled ==
    UnhandledEvents
    \cup {Event("message", 0, "manager", 0, 0, "Kim", NoName, ""),
          Event("message", 2, "", 1, 0, NoName, NoName, ""),
          Event("user", 1, "user", 1, 0, NoName, NoName, "")}

\* A webhook request with a token both programs accept, and in main.py the
\* task it spawns run to its end.  `last` keeps what the event was and
\* whether its conversation was in a store before it.
EventWebhook(op, data) ==
    LET r == IF program = "main"
             THEN handle_webhook(State, <<WEBHOOK_TOKEN_MAIN>>, data, TRUE)
             ELSE handle_webhook_server(State, <<WEBHOOK_TOKEN_MAIN>>, data, TRUE)
    IN /\ WithinBounds(r.st)
       /\ Apply(r.st)
       /\ last' = [op |-> op, chat_id |-> data.chatId, state |-> data.state,
                   status |-> r.status,
                   pending |-> data.chatId \in unanswered_chats \cup DOMAIN memory_cache]
       /\ UNCHANGED <<program, now, redis_up, seen, last_msg, broadcastVars, taskVars>>

EventCustomer ==
    /\ program \in {"main", "server"}
    /\ \E data \in CustomerMessages(now) : EventWebhook("customer", data)

EventUserChat ==
    /\ program \in {"main", "server"}
    /\ \E data \in EventUserChats : EventWebhook("user_chat", data)

EventOther ==
    /\ program \in {"main", "server"}
    /\ \E data \in EventUnhandled : EventWebhook("unhandled", data)

EventNext == EventCustomer \/ EventUserChat \/ EventOther

EventSpec == Init /\ [][EventNext]_vars

\* -------------------------------------------------------- the connections
\* handle_websocket next to the webhooks.  The handler of viewer v is the
\* coroutine tasks[v]: it adds v to self.websockets, awaits get_all_chats
\* (and get_rankings in main.py) and sends 'initial'.  hist.view[v] is the
\* list the dashboard of v shows: 'initial' replaces it, 'new_chat' adds the
\* conversation, 'chat_answered' removes it (ws.onmessage).  A webhook runs
\* to its end in one step and its broadcast reaches every viewer of
\* self.websockets once.
RECURSIVE on_messages(_, _)
on_messages(chats, box) ==
    IF box = <<>>
    THEN chats
    ELSE LET data == Head(box)
             next == IF data.type = "new_chat" THEN chats \cup {data.chat.id}
                     ELSE IF data.type = "chat_answered" THEN chats \ {data.chatId}
                     ELSE chats
         IN on_messages(next, Tail(box))

\* The ids of the conversations get_all_chats of the running program returns.
snapshot_ids(st) ==
    IF program = "main"
    THEN get_all_chats(st)
    ELSE {ch.id : ch \in get_all_chats_server(st, TRUE).chats}

\* get_all_chats returns without an await: main.py with a cache that is not
\* empty, server.py in memory mode.
snapshot_at_once ==
    IF program = "main" THEN DOMAIN chat_cache # {} ELSE ~redis_up

ConnectInit ==
    /\ program \in {"main", "server"}
    /\ now = 0
    /\ unanswered_chats = {}
    /\ redis_chat = EmptyDict
    /\ redis_messages = EmptyDict
    /\ stats_total = EmptyDict
    /\ stats_today = EmptyDict
    /\ ranking_total = EmptyDict
    /\ ranking_daily = EmptyDict
    /\ chat_cache = EmptyDict
    /\ chat_messages = EmptyDict
    /\ memory_cache = EmptyDict
    /\ redis_up \in (IF program = "main" THEN {TRUE} ELSE BOOLEAN)
    /\ outbox = <<>>
    /\ last = [op |-> "setup"]
    /\ seen = {}
    /\ last_msg = EmptyDict
    /\ websockets = {}
    /\ opened = {}
    /\ broken = {}
    /\ calls = [c \in Calls |-> IdleCall]
    /\ sends = [c \in Calls |-> [v \in Viewers |-> [ok |-> 0, failed |-> 0]]]
    /\ tasks = [t \in TaskIds |-> IdleTask]
    /\ hist = [view |-> [v \in TaskIds |-> {}]]

\* handle_websocket up to its first await.  In the numbering of the viewers
\* the smaller id connects first.
WsConnect(v) ==
    /\ tasks[v].kind = "none"
    /\ \A u \in TaskIds : u < v => tasks[u].kind # "none"
    /\ websockets' = websockets \cup {v}
    /\ tasks' = [tasks EXCEPT ![v] =
                    IF ~snapshot_at_once
                    THEN [IdleTask EXCEPT !.kind = "websocket", !.pc = "snapshot"]
                    ELSE [IdleTask EXCEPT !.kind = "websocket",
                                          !.pc = IF program = "main" THEN "send" ELSE "open",
                                          !.ids = snapshot_ids(State)]]
    /\ hist' = IF snapshot_at_once /\ program = "server"
               THEN [hist EXCEPT !.view[v] = snapshot_ids(State)]
               ELSE hist
    /\ last' = [op |-> "ws_connect", viewer |-> v]
    /\ outbox' = <<>>
    /\ UNCHANGED <<program, now, unanswered_chats, redis_chat, redis_messages,
                   stats_total, stats_today, ranking_total, ranking_daily,
                   chat_cache, chat_messages, memory_cache, redis_up,
                   seen, last_msg, opened, broken, calls, sends>>

\* Redis answers the reads of get_all_chats.
WsSnapshot(v) ==
    /\ tasks[v].kind = "websocket" /\ tasks[v].pc = "snapshot"
    /\ tasks' = [tasks EXCEPT ![v] = [@ EXCEPT !.pc = "send", !.ids = snapshot_ids(State)]]
    /\ last' = [op |-> "ws_snapshot", viewer |-> v]
    /\ outbox' = <<>>
    /\ UNCHANGED <<program, now, unanswered_chats, redis_chat, redis_messages,
                   stats_total, stats_today, ranking_total, ranking_daily,
                   chat_cache, chat_messages, memory_cache, redis_up,
                   seen, last_msg, broadcastVars, hist>>

\* The handler resumes and sends 'initial' with the chats it holds.
WsInitial(v) ==
    /\ tasks[v].kind = "websocket" /\ tasks[v].pc = "send"
    /\ tasks' = [tasks EXCEPT ![v] = [@ EXCEPT !.pc = "open", !.ids = {}]]
    /\ hist' = [hist EXCEPT !.view[v] = tasks[v].ids]
    /\ last' = [op |-> "ws_initial", viewer |-> v]
    /\ outbox' = <<>>
    /\ UNCHANGED <<program, now, unanswered_chats, redis_chat, redis_messages,
                   stats_total, stats_today, ranking_total, ranking_daily,
                   chat_cache, chat_messages, memory_cache, redis_up,
                   seen, last_msg, broadcastVars>>

\* An accepted customer message or reply, handled to its end; its
\* broadcasts go to the viewers of self.websockets.
WsWebhook ==
    /\ program \in {"main", "server"}
    /\ \E data \in CustomerMessages(now) \cup StaffMessages :
        LET r == IF program = "main"
                 THEN handle_webhook(State, <<WEBHOOK_TOKEN_MAIN>>, data, TRUE)
                 ELSE handle_webhook_server(State, <<WEBHOOK_TOKEN_MAIN>>, data, TRUE)
        IN /\ WithinBounds(r.st)
           /\ Apply(r.st)
           /\ hist' = [hist EXCEPT !.view =
                           [v \in TaskIds |-> IF v \in websockets
                                              THEN on_messages(hist.view[v], r.st.outbox)
                                              ELSE hist.view[v]]]
           /\ last' = [op |-> "webhook", viewer |-> 0]
    /\ UNCHANGED <<program, now, redis_up, seen, last_msg, broadcastVars, tasks>>

ConnectNext ==
    \/ \E v \in TaskIds : WsConnect(v) \/ WsSnapshot(v) \/ WsInitial(v)
    \/ WsWebhook

ConnectSpec == ConnectInit /\ [][ConnectNext]_vars

\* ------------------------------------------------------------ the start
\* setup of main.py on a Redis that earlier runs (and whatever else writes
\* to it) left behind.  For every conversation Redis holds nothing, an id in
\* 'unanswered_chats' without a key, or a key chat:{id} (in the set or not)
\* whose record is sound or does not parse.  The dicts of the new process are
\* empty.
LoadKinds == {"none", "orphan", "listed", "unlisted"}

LoadStamps(t) ==
    {isoformat(k * TickSeconds) : k \in 0 .. (t \div TickSeconds)} \cup {<<"text", 0>>}

LoadRecord(c, stamp) ==
    with_defaults([id |-> c, lastMessage |-> 0, timestamp |-> stamp,
                   assignee |-> NoName, team |-> NoName])

LoadInit ==
    /\ program = "main"
    /\ now \in {k * TickSeconds : k \in 0 .. MaxTicks}
    /\ \E kind \in [ChatIds -> LoadKinds], stamp \in [ChatIds -> LoadStamps(now)] :
        /\ \A c \in ChatIds :
               kind[c] \in {"none", "orphan"} => stamp[c] = isoformat(0)
        /\ unanswered_chats = {c \in ChatIds : kind[c] \in {"orphan", "listed"}}
        /\ redis_chat = [c \in {x \in ChatIds : kind[x] \in {"listed", "unlisted"}} |->
                            [value |-> LoadRecord(c, stamp[c]), exp |-> now + TickSeconds]]
    /\ redis_messages = EmptyDict
    /\ stats_total = EmptyDict
    /\ stats_today = EmptyDict
    /\ ranking_total = EmptyDict
    /\ ranking_daily = EmptyDict
    /\ chat_cache = EmptyDict
    /\ chat_messages = EmptyDict
    /\ memory_cache = EmptyDict
    /\ redis_up = TRUE
    /\ outbox = <<>>
    /\ last = [op |-> "setup", existing_ids |-> {}]
    /\ seen = {}
    /\ last_msg = EmptyDict
    /\ websockets = {}
    /\ opened = {}
    /\ broken = {}
    /\ calls = [c \in Calls |-> IdleCall]
    /\ sends = [c \in Calls |-> [v \in Viewers |-> [ok |-> 0, failed |-> 0]]]
    /\ tasks = [t \in TaskIds |-> IdleTask]
    /\ hist = NoHist

\* `await self._initial_load()` of setup, before the server accepts requests.
InitialLoad ==
    /\ last.op = "setup"
    /\ Apply(initial_load(State))
    /\ last' = [op |-> "initial_load", existing_ids |-> unanswered_chats]
    /\ UNCHANGED <<program, now, redis_up, seen, last_msg, broadcastVars, taskVars>>

LoadNext == InitialLoad

LoadSpec == LoadInit /\ [][LoadNext]_vars

\* --------------------------------------------------------- the fallback
\* server.py with a Redis whose commands raise now and then: save_chat,
\* remove_chat and get_all_chats each take their except branch when they do.
\* hist.removed holds the conversations remove_chat was called for and no
\* customer message was saved for since.
FallbackInit ==
    /\ program = "server"
    /\ now = 0
    /\ unanswered_chats = {}
    /\ redis_chat = EmptyDict
    /\ redis_messages = EmptyDict
    /\ stats_total = EmptyDict
    /\ stats_today = EmptyDict
    /\ ranking_total = EmptyDict
    /\ ranking_daily = EmptyDict
    /\ chat_cache = EmptyDict
    /\ chat_messages = EmptyDict
    /\ memory_cache = EmptyDict
    /\ redis_up = TRUE
    /\ outbox = <<>>
    /\ last = [op |-> "setup", reported |-> {}]
    /\ seen = {}
    /\ last_msg = EmptyDict
    /\ websockets = {}
    /\ opened = {}
    /\ broken = {}
    /\ calls = [c \in Calls |-> IdleCall]
    /\ sends = [c \in Calls |-> [v \in Viewers |-> [ok |-> 0, failed |-> 0]]]
    /\ tasks = [t \in TaskIds |-> IdleTask]
    /\ hist = [removed |-> {}]

\* POST /webhook with a customer message: save_chat.
FallbackSave ==
    /\ program = "server"
    /\ \E data \in CustomerMessages(now), redis_ok \in BOOLEAN :
        LET r == handle_webhook_server(State, <<WEBHOOK_TOKEN_MAIN>>, data, redis_ok)
        IN /\ Apply(r.st)
           /\ hist' = [hist EXCEPT !.removed = @ \ {data.chatId}]
           /\ last' = [op |-> "save_chat", reported |-> {}]
    /\ UNCHANGED <<program, now, redis_up, seen, last_msg, broadcastVars, tasks>>

\* POST /webhook with a reply of a manager or a bot: remove_chat.
FallbackRemove ==
    /\ program = "server"
    /\ \E data \in StaffMessages, redis_ok \in BOOLEAN :
        LET r == handle_webhook_server(State, <<WEBHOOK_TOKEN_MAIN>>, data, redis_ok)
        IN /\ Apply(r.st)
           /\ hist' = [hist EXCEPT !.removed = @ \cup {data.chatId}]
           /\ last' = [op |-> "remove_chat", reported |-> {}]
    /\ UNCHANGED <<program, now, redis_up, seen, last_msg, broadcastVars, tasks>>

\* GET /api/chats.
FallbackGetChats ==
    /\ program = "server"
    /\ \E redis_ok \in BOOLEAN :
        LET r == get_all_chats_server(State, redis_ok)
        IN /\ Apply(r.st)
           /\ last' = [op |-> "get_chats", reported |-> {ch.id : ch \in r.chats}]
    /\ UNCHANGED <<program, now, redis_up, seen, last_msg, broadcastVars, taskVars>>

FallbackNext == FallbackSave \/ FallbackRemove \/ FallbackGetChats \/ Tick

FallbackSpec == FallbackInit /\ [][FallbackNext]_vars

\* ============================================================== the claims
Count(d, k) == IF k \in DOMAIN d THEN d[k] ELSE 0

Sum(d) ==
    LET RECURSIVE sum_over(_)
        sum_over(ks) == IF ks = {} THEN 0
                        ELSE LET k == CHOOSE x \in ks : TRUE
                             IN d[k] + sum_over(ks \ {k})
    IN sum_over(DOMAIN d)

InStore(c) == c \in unanswered_chats /\ c \in DOMAIN chat_cache

Broadcasts(box, type) == {i \in 1 .. Len(box) : box[i].type = type}

StoreUnchanged ==
    UNCHANGED <<unanswered_chats, redis_chat, redis_messages, stats_total, stats_today,
                ranking_total, ranking_daily, chat_cache, chat_messages, memory_cache>>

\* C1 (as stated): in main.py a conversation is in the pending store exactly
\* when the latest message event processed for it came from the customer and
\* the conversation is not older than 12 hours.
C1_PendingIffLastFromUser ==
    program = "main" =>
        \A c \in ChatIds :
            InStore(c) <=> /\ c \in DOMAIN last_msg
                           /\ last_msg[c].personType = "user"
                           /\ now - last_msg[c].createdAt <= MAX_AGE_HOURS * 3600

\* C2 (as stated): in main.py a customer message delivered a second time
\* causes no 'new_chat' broadcast and leaves the 'received' counters alone.
C2_RedeliveryNotCounted ==
    [][(program = "main" /\ last'.op = "handle_webhook" /\ last'.status = 200
            /\ last'.kind = "customer" /\ last'.redelivery)
        => /\ Broadcasts(outbox', "new_chat") = {}
           /\ Count(stats_total', "received") = Count(stats_total, "received")
           /\ Count(stats_today', <<"received", Date(now)>>)
                  = Count(stats_today, <<"received", Date(now)>>)]_vars

\* C3 (as stated): in main.py a remove_chat for a conversation that is not
\* pending (a reply delivered again, a close event, a manual mark) leaves the
\* 'answered' counters and every ranking counter alone.
C3_RemoveOfNonPendingNotCounted ==
    [][(/\ program = "main"
        /\ \/ last'.op = "handle_webhook" /\ last'.status = 200
                /\ last'.kind \in {"staff", "closed"}
           \/ last'.op = "mark_answered"
        /\ last'.chat_id \notin unanswered_chats)
        => /\ Count(stats_total', "answered") = Count(stats_total, "answered")
           /\ Count(stats_today', <<"answered", Date(now)>>)
                  = Count(stats_today, <<"answered", Date(now)>>)
           /\ ranking_total' = ranking_total
           /\ ranking_daily' = ranking_daily]_vars

\* C4 (as stated): in main.py, with the clock and the sweep running, a stored
\* conversation is in the end removed from 'unanswered_chats' and chat_cache,
\* unless another event for it arrives first.
C4_StoredIsEventuallySwept ==
    \A c \in ChatIds :
        (InStore(c) /\ last.op = "tick")
            ~> \/ c \notin unanswered_chats /\ c \notin DOMAIN chat_cache
               \/ last.op \in {"handle_webhook", "mark_answered"} /\ last.chat_id = c

\* C5: an eviction by the sweep of main.py is silent: the 'answered' counters
\* and the rankings keep their values, no exception leaves the sweep, and every
\* 'chat_answered' it broadcasts names no manager.
C5_SweepIsSilent ==
    [][(last'.op = "cleanup")
        => /\ stats_total' = stats_total
           /\ stats_today' = stats_today
           /\ ranking_total' = ranking_total
           /\ ranking_daily' = ranking_daily
           /\ last'.raised = FALSE
           /\ \A i \in 1 .. Len(outbox') :
                  outbox'[i].type = "chat_answered" /\ outbox'[i].manager = NoName]_vars

\* The sweep has evicted a conversation and broadcast it.
C5_Witness ==
    /\ last.op = "cleanup"
    /\ last.removed # {}
    /\ Broadcasts(outbox, "chat_answered") # {}
    /\ Sum(stats_total) > 0

\* C9 (as stated): in server.py a webhook event delivered a second time causes
\* no 'new_chat' and no 'chat_answered' broadcast.
C9_ServerRedeliveryNotBroadcast ==
    [][(program = "server" /\ last'.op = "handle_webhook" /\ last'.status = 200
            /\ last'.redelivery)
        => Broadcasts(outbox', "new_chat") \cup Broadcasts(outbox', "chat_answered") = {}]_vars

\* The tokens either program is set up to accept, as the requests spell them.
AcceptedTokens ==
    IF program = "main" THEN {WEBHOOK_TOKEN_MAIN}
    ELSE {"AJUNG", "ajung", "Ajung", WEBHOOK_TOKEN_MAIN}

\* C10: a webhook request that carries none of the accepted tokens is answered
\* with 401, and the store, the counters and the viewers see nothing of it.
C10_UnauthorizedChangesNothing ==
    [][(/\ last'.op = "handle_webhook"
        /\ \A i \in 1 .. Len(last'.tokens) : last'.tokens[i] \notin AcceptedTokens)
        => /\ last'.status = 401
           /\ StoreUnchanged
           /\ outbox' = <<>>]_vars

\* A request was turned away while conversations were pending.
C10_Witness ==
    /\ last.op = "handle_webhook"
    /\ last.status = 401
    /\ unanswered_chats \cup DOMAIN memory_cache # {}

\* C6 (as stated): in either program one call of broadcast sends its data to
\* a viewer at most once, whether the send goes through or raises.
C6_AtMostOncePerCall ==
    \A c \in Calls, v \in Viewers : sends[c][v].ok + sends[c][v].failed <= 1

\* C7 (as stated): in either program a viewer whose send raised in a call is
\* out of the viewer set once that call has ended, and no call that started
\* after that end sends to it.
C7_FailedViewerIsDropped ==
    \A c \in Ended(calls), v \in Viewers :
        sends[c][v].failed > 0 =>
            /\ v \notin websockets
            /\ \A d \in Calls :
                   c \in calls[d].after => sends[d][v].ok + sends[d][v].failed = 0

ReportedByServer == {ch.id : ch \in get_all_chats_server(State, TRUE).chats}

\* C11 (as stated): in server.py, once the clock has advanced by more than the
\* time-to-live of 3600 s, get_all_chats reports none of the conversations
\* stored before, with Redis connected and in memory mode alike.
C11_ServerExpiresPending ==
    [][(program = "server" /\ last'.op = "tick" /\ TickSeconds >= SERVER_TTL)
        => ReportedByServer' = {}]_vars

\* ------------------------------------------------------------- the tasks
\* Task t ran save_chat, task u ran remove_chat for the same conversation,
\* both have returned, and no other task has been created.
OnlyTasks(t, u) ==
    /\ tasks[t].pc = "done" /\ tasks[u].pc = "done"
    /\ tasks[t].chat = tasks[u].chat
    /\ \A w \in TaskIds \ {t, u} : tasks[w].kind = "none"

\* C12 (as stated): when the customer-message webhook of a conversation was
\* acknowledged before the reply webhook of the same conversation, then once
\* both tasks have finished (the pipeline of the reply went through) the
\* conversation is not pending: it is not a member of 'unanswered_chats'.
C12_ReplyAfterMessageNotPending ==
    \A t, u \in TaskIds :
        (/\ t < u
         /\ tasks[t].kind = "save"
         /\ tasks[u].kind = "remove" /\ tasks[u].via = "reply"
         /\ tasks[u].outcome = "removed"
         /\ OnlyTasks(t, u))
        => tasks[t].chat \notin unanswered_chats

\* C13 (as stated): once remove_chat has removed a conversation, and until a
\* new customer message for it is taken up, the conversation is not a key of
\* chat_cache and is not returned by get_all_chats, whatever enrich pass or
\* save_chat continuation was in flight at the time of the removal.
C13_RemovedStaysRemoved ==
    \A c \in TaskChats :
        hist.removed[c] => (c \notin DOMAIN chat_cache /\ c \notin get_all_chats(State))

\* C14 (as stated): when two save_chat calls for the same customer message
\* run concurrently (the second begins while the first is in flight) and the
\* Redis commands of both go through, exactly one of them stores the message
\* and broadcasts 'new_chat' and the other returns as a duplicate, also when
\* the first of them has to load the hash set from Redis.
C14_ConcurrentSaveStoresOnce ==
    \A t, u \in TaskIds :
        (/\ t < u
         /\ tasks[t].kind = "save" /\ tasks[u].kind = "save"
         /\ message_hash(tasks[t].data) = message_hash(tasks[u].data)
         /\ t \in tasks[u].began_with
         /\ OnlyTasks(t, u)
         /\ {tasks[t].outcome, tasks[u].outcome} \cap {"failed", "error"} = {})
        => {tasks[t].outcome, tasks[u].outcome} = {"stored", "duplicate"}

C16_FailedSaveHasNoEffect ==
    [][/\ \A t \in TaskIds :
            (/\ tasks[t].kind = "save" /\ tasks[t].pc = "execute"
             /\ tasks'[t].outcome = "failed")
            => (/\ tasks[t].chat \in DOMAIN chat_messages'
                    => message_hash(tasks[t].data) \notin chat_messages'[tasks[t].chat]
                /\ chat_cache' = chat_cache
                /\ outbox' = <<>>)
       /\ \A t, u \in TaskIds :
            (/\ t < u
             /\ tasks[t].kind = "save" /\ tasks[t].outcome = "failed"
             /\ tasks'[u].kind = "save"
             /\ tasks[u].pc # "done" /\ tasks'[u].pc = "done"
             /\ message_hash(tasks[t].data) = message_hash(tasks'[u].data)
             /\ t \notin tasks'[u].began_with
             /\ \A w \in TaskIds \ {t, u} : tasks[w].kind = "none")
            => tasks'[u].outcome # "duplicate"]_vars

\* Task t ran alone: no task was in flight when it began and none began
\* while it was in flight.
RanAlone(t) ==
    /\ tasks[t].began_with = {}
    /\ \A u \in TaskIds \ {t} : t \notin tasks[u].began_with

C18_SyncKeepsMembers ==
    [][last'.op \in {"sync_members", "sync_got"}
        => \A c \in ((DOMAIN chat_cache) \ DOMAIN chat_cache')
                     \cup ((DOMAIN chat_messages) \ DOMAIN chat_messages') :
               c \notin unanswered_chats]_vars

\* The name under which a reply would be counted, and whether remove_chat
\* is to count it according to the claim.
Counts(name, assignee) == Lower(name) # "bot" /\ name # assignee

\* C19: a staff reply that removes a pending conversation increments the
\* responder's ranking:daily and ranking:total counters by one if the
\* responder's name is not 'bot' in any case and differs from the assignee of
\* the conversation (a conversation without assignee always counts), and
\* leaves both rankings as they were otherwise.
C19_RankingCountsNonAssignee ==
    [][(last'.op = "reply" /\ last'.pending)
        => IF Counts(last'.manager, last'.assignee)
           THEN /\ ranking_total' = HIncr(ranking_total, last'.manager)
                /\ ranking_daily' = HIncr(ranking_daily, <<Date(now), last'.manager>>)
           ELSE /\ ranking_total' = ranking_total
                /\ ranking_daily' = ranking_daily]_vars

\* A pending conversation was answered by its own assignee.
C19_Witness ==
    /\ last.op = "reply"
    /\ last.pending
    /\ last.personType = "manager"
    /\ last.manager = "Kim"
    /\ last.assignee = "Kim"

\* What GET /api/rankings would return.
RankingsShown == get_rankings(State)

\* C20 (as stated): a reply whose personType is 'bot' increments no ranking
\* counter and changes nothing in what get_rankings returns, whatever name
\* refers.manager carries.
C20_BotReplyNotRanked ==
    [][(last'.op = "reply" /\ last'.personType = "bot")
        => /\ ranking_total' = ranking_total
           /\ ranking_daily' = ranking_daily
           /\ RankingsShown' = RankingsShown]_vars

\* ------------------------------------------------------------- the view
Waited(chat) == now - fromisoformat(chat.timestamp)

\* C21: get_all_chats of main.py returns every conversation of chat_cache
\* that has waited at most 12 hours exactly once, returns no conversation
\* that has waited longer, reports waitMinutes and waitSeconds that are not
\* negative, and lists the conversations by non-increasing waitSeconds.
C21_SnapshotOfTheCache ==
    last.op = "get_chats" =>
        LET chats == last.chats
        IN /\ \A c \in DOMAIN chat_cache :
                Waited(chat_cache[c]) <= 43200
                    => Cardinality({i \in 1 .. Len(chats) : chats[i].id = c}) = 1
           /\ \A i \in 1 .. Len(chats) :
                /\ Waited(chats[i]) <= 43200
                /\ chats[i].waitMinutes >= 0
                /\ chats[i].waitSeconds >= 0
           /\ \A i, j \in 1 .. Len(chats) :
                i < j => chats[i].waitSeconds >= chats[j].waitSeconds

\* A snapshot of a cache that holds one conversation waiting for more than
\* 12 hours and two that have waited for different times, listed in order.
C21_Witness ==
    /\ last.op = "get_chats"
    /\ \E c \in DOMAIN chat_cache : Waited(chat_cache[c]) > 43200
    /\ Len(last.chats) = 2
    /\ last.chats[1].waitSeconds > last.chats[2].waitSeconds

\* ------------------------------------------------------------ the events
\* The ids either program holds as pending, in Redis or in the process.
PendingIds == unanswered_chats \cup DOMAIN chat_cache \cup DOMAIN memory_cache

\* The userChat states on which the running program removes.
ClosingStates ==
    IF program = "main" THEN {"closed", "resolved", "snoozed"} ELSE {"closed", "resolved"}

\* C22: a userChat event never makes a conversation pending that was not:
\* with state 'closed' or 'resolved' (and 'snoozed' in main.py) its
\* conversation leaves the pending ids and no other id changes; with any
\* other state the pending ids are unchanged, and main.py changes at most the
\* assignee and team of a conversation that is in chat_cache already.
C22_UserChatNeverAddsPending ==
    [][last'.op = "user_chat"
        => /\ PendingIds' \subseteq PendingIds
           /\ IF last'.state \in ClosingStates
              THEN PendingIds' = PendingIds \ {last'.chat_id}
              ELSE /\ PendingIds' = PendingIds
                   /\ unanswered_chats' = unanswered_chats
                   /\ DOMAIN chat_cache' = DOMAIN chat_cache
                   /\ memory_cache' = memory_cache
                   /\ \A c \in DOMAIN chat_cache :
                        [chat_cache'[c] EXCEPT !.assignee = chat_cache[c].assignee,
                                               !.team = chat_cache[c].team]
                            = chat_cache[c]]_vars

\* main.py has taken a 'snoozed' event for a pending conversation.
C22_Witness ==
    /\ program = "main"
    /\ last.op = "user_chat"
    /\ last.state = "snoozed"
    /\ last.pending
    /\ last.chat_id \notin PendingIds

\* C23: an authorised webhook event that is not handled (another type, a
\* message without chatId, a message of an author that is neither 'user' nor
\* 'manager' nor 'bot') is answered with 200 and leaves the stores, the
\* counters and the viewer set as they were, with no broadcast.
C23_UnhandledEventChangesNothing ==
    [][last'.op = "unhandled"
        => /\ last'.status = 200
           /\ StoreUnchanged
           /\ websockets' = websockets
           /\ outbox' = <<>>]_vars

\* An unhandled event was answered while a conversation was pending.
C23_Witness ==
    /\ last.op = "unhandled"
    /\ last.status = 200
    /\ PendingIds # {}

\* C24 (as stated): in main.py, whenever no operation is in flight, the
\* assignee and the team chat_cache holds for a pending conversation are
\* those of the record stored in Redis under chat:{id}.
C24_CacheMetadataEqualsRedis ==
    program = "main" =>
        \A c \in unanswered_chats \cap DOMAIN chat_cache \cap DOMAIN redis_chat :
            /\ chat_cache[c].assignee = redis_chat[c].value.assignee
            /\ chat_cache[c].team = redis_chat[c].value.team

\* ------------------------------------------------------ the connections
\* C25 (as stated): a viewer that has received 'initial' and applies the
\* messages in the order they were sent to it shows, while no handler is
\* between two steps, exactly the conversations get_all_chats returns,
\* also when a broadcast was sent between its joining self.websockets and
\* its 'initial' message.
C25_ViewerShowsThePendingSet ==
    (\A u \in TaskIds : tasks[u].pc \in {"idle", "open"})
        => \A v \in TaskIds :
               tasks[v].pc = "open" => hist.view[v] = snapshot_ids(State)

\* ------------------------------------------------------------ the start
\* C26: once _initial_load has completed, every id left in
\* 'unanswered_chats' has a key chat:{id} whose record parses and is not
\* older than 12 hours, and the keys of chat_cache are exactly those ids.
C26_InitialLoadLeavesSoundIds ==
    last.op = "initial_load" =>
        /\ \A c \in unanswered_chats :
               /\ c \in DOMAIN redis_chat
               /\ redis_chat[c].value.timestamp[1] = "iso"
               /\ now - redis_chat[c].value.timestamp[2] <= 12 * 3600
        /\ DOMAIN chat_cache = unanswered_chats

\* C26 happens: the load found two ids, kept one and removed the other.
C26_Witness ==
    /\ last.op = "initial_load"
    /\ Cardinality(last.existing_ids) = 2
    /\ Cardinality(unanswered_chats) = 1

\* --------------------------------------------------------- the fallback
\* C27 (as stated): get_all_chats of server.py never returns a conversation
\* remove_chat was called for unless a customer message for it was saved
\* since, also when commands of Redis fail now and then and memory_cache
\* takes over.
C27_RemovedIsNotReturned ==
    (program = "server" /\ last.op = "get_chats") =>
        last.reported \cap hist.removed = {}

====
